---- MODULE Spec2Model ----
(***************************************************************************)
(* A model of solarflow-bt-manager (src/src/main.py): the command line     *)
(* front end (main), the run() coroutine with its four branches            *)
(* (disconnect, connect, info-only, continuous polling), device discovery  *)
(* (discover_device), the command writers (getInfo, set_IoT_Url) and the   *)
(* notification callback (handle_rx).                                      *)
(*                                                                         *)
(* The specifications share the variables:                                 *)
(*   Spec        the whole program, from option parsing to termination;    *)
(*   FairSpec    Spec with weak fairness on the program's own steps;       *)
(*   SpecLocate  discover_device applied to bounded scan inputs;           *)
(*   SpecRx      handle_rx applied to a bounded universe of payloads.      *)
(*   SpecSink    the two users of the MQTT client, handle_rx and           *)
(*               set_IoT_Url, with and without a client.                   *)
(***************************************************************************)
EXTENDS Integers, Sequences, FiniteSets, TLC

VARIABLES
    pc,             \* position of the program
    nopts,          \* options consumed so far by main's option loop
    info_only,      \* main: info_only
    connect,        \* main: connect
    disconnect,     \* main: disconnect
    ssid,           \* main: ssid
    mqtt_broker,    \* main: mqtt_broker
    mqtt_port,      \* main: mqtt_port
    WIFI_PWD,       \* module global, from the environment
    SfDeviceId,     \* module global SF_DEVICE_ID, from the environment
    SfProductId,    \* module global SF_PRODUCT_ID, from the environment
    mq_client,      \* module global: the MQTT client, or NoClient
    device,         \* run: the device returned by discover_device
    session,        \* state of the BLE connection behind bt_client
    notifying,      \* whether SF_NOTIFY_CHAR is subscribed on the session
    getinfo,        \* run: the poll-due flag of the continuous loop
    mode,           \* branch of run() that was taken
    ops,            \* history: the first MaxLog session operations
    last,           \* history: the latest session operation
    published,      \* history: topics published through mq_client
    exitCode,       \* status passed to sys.exit, NoExit when none
    reported,       \* last error logged by run or main, "" when none
    all_devices,    \* discover_device: result of BleakScanner.discover
    seen,           \* discover_device: advertisers seen by the filtered scan
    filterRaises,   \* discover_device: the filtered scan raises
    data,           \* handle_rx: the notification bytes
    rx              \* handle_rx: outcome of the last callback

mainVars == <<nopts, info_only, connect, disconnect, ssid, mqtt_broker,
              mqtt_port>>
cfgVars == <<mainVars, WIFI_PWD, SfDeviceId, SfProductId>>
locVars == <<all_devices, seen, filterRaises>>
rxVars == <<data, rx>>
sessVars == <<session, notifying, getinfo, mode, ops, last>>
vars == <<pc, cfgVars, mq_client, device, sessVars, published, exitCode,
          reported, locVars, rxVars>>

(***************************************************************************)
(* Bounds of the model.                                                    *)
(***************************************************************************)
MaxOpts == 3
MaxLog == 7
MaxDevs == 2
MaxSeen == 1
MaxRunDevs == 1

(***************************************************************************)
(* Python's None for the optional strings and numbers of the program.      *)
(***************************************************************************)
NONE == "<None>"
NoPort == -1
NoExit == -1
NoClient == "<None>"

\* One entry of the operation history: the operation and whether it
\* succeeded.
Entry(op, ok) == [op |-> op, ok |-> ok]
NoOp == Entry("none", TRUE)

Truthy(s) == s # NONE /\ s # ""
TruthyPort(p) == p # NoPort /\ p # 0

(***************************************************************************)
(* Strings whose characters matter (advertised names, name prefixes) are   *)
(* tuples of one-character strings.                                        *)
(***************************************************************************)
\* str.lower() on one character: the upper-case letters of the name universe.
LowerChar(c) ==
    CASE c = "Z" -> "z"
      [] c = "E" -> "e"
      [] c = "N" -> "n"
      [] c = "H" -> "h"
      [] c = "X" -> "x"
      [] OTHER -> c

\* str.lower()
lower(s) == [i \in 1..Len(s) |-> LowerChar(s[i])]

\* str.startswith(prefix)
startswith(s, prefix) ==
    /\ Len(prefix) <= Len(s)
    /\ \A i \in 1..Len(prefix) : s[i] = prefix[i]

\* product_map of discover_device, product id -> name prefix
product_map ==
    [p \in {"73bkTV", "A8yh63", "yWF7hV", "ja72U0ha", "8bM93H"} |->
        CASE p = "73bkTV" -> <<"z", "e", "n", "p">>
          [] p = "A8yh63" -> <<"z", "e", "n", "h">>
          [] p = "yWF7hV" -> <<"z", "e", "n", "r">>
          [] p = "ja72U0ha" -> <<"z", "e", "n", "e">>
          [] p = "8bM93H" -> <<"z", "e", "n", "f">>]

\* product_map.get(SF_PRODUCT_ID) without the default (mutant of
\* product_class): None, here the empty prefix, for an unmapped identifier.
product_classNoDefault(pid) ==
    IF pid \in DOMAIN product_map THEN product_map[pid] ELSE <<>>

\* product_map.get(SF_PRODUCT_ID, "zen")
product_class(pid) ==
    IF pid \in DOMAIN product_map THEN product_map[pid] ELSE <<"z", "e", "n">>

\* The product identifiers tried: the five mapped ones and two unmapped ones.
ProductIds ==
    {"73bkTV", "A8yh63", "yWF7hV", "ja72U0ha", "8bM93H", "JA72U0HA", "unknown"}

(***************************************************************************)
(* Advertisers (bleak's BLEDevice): name is None when hasName is FALSE.    *)
(***************************************************************************)
Adv(hasName, name, address) ==
    [hasName |-> hasName, name |-> name, address |-> address]

NoDevice == Adv(FALSE, <<>>, "<None>")

Advertisers ==
    { Adv(TRUE, <<"Z", "e", "n", "E", "-", "1", "2", "3", "4">>, "AA:01"),
      Adv(TRUE, <<"Z", "E", "N", "E", "-", "2">>, "AA:02"),
      Adv(TRUE, <<"z", "e", "n", "h", "1">>, "AA:03"),
      Adv(TRUE, <<"x", "Z", "e", "n", "E">>, "AA:04"),
      Adv(TRUE, <<"Z", "e", "n">>, "AA:05"),
      Adv(TRUE, <<>>, "AA:06"),
      Adv(FALSE, <<>>, "AA:07") }

\* The predicate of both strategies (lines 218 and 228):
\*   d.name and d.name.lower().startswith(product_class)
NameMatchesNoLower(d, prefix) ==
    d.hasName /\ d.name # <<>> /\ startswith(d.name, prefix)

NameMatches(d, prefix) ==
    d.hasName /\ d.name # <<>> /\ startswith(lower(d.name), prefix)

\* Index of the first entry of devs that matches, 0 when none does.
RECURSIVE FirstMatchFrom(_, _, _)
FirstMatchFrom(devs, prefix, i) ==
    IF i > Len(devs) THEN 0
    ELSE IF NameMatches(devs[i], prefix) THEN i
    ELSE FirstMatchFrom(devs, prefix, i + 1)

FirstMatch(devs, prefix) ==
    LET i == FirstMatchFrom(devs, prefix, 1)
    IN  IF i = 0 THEN NoDevice ELSE devs[i]

\* Method 1: BleakScanner.find_device_by_filter inside try/except. The scan
\* returns the first advertiser it observes that satisfies the filter, None on
\* timeout; when it raises, device stays None.
FilterScan(observed, raises, prefix) ==
    IF raises THEN NoDevice ELSE FirstMatch(observed, prefix)

\* Method 2 with a guard that is always taken (mutant of the fallback).
FallbackAlways(found, devs, prefix) == FirstMatch(devs, prefix)

\* Method 2: if not device, the first match of all_devices in list order.
Fallback(found, devs, prefix) ==
    IF found = NoDevice THEN FirstMatch(devs, prefix) ELSE found

\* Whether the fallback list scan is consulted (line 225).
FallbackConsulted(observed, raises, pid) ==
    FilterScan(observed, raises, product_class(pid)) = NoDevice

\* discover_device(), given what the two scans deliver.
discover_device(devs, observed, raises, pid) ==
    LET prefix == product_class(pid)
    IN  Fallback(FilterScan(observed, raises, prefix), devs, prefix)

\* Sequences over S of length at most n.
SeqUpTo(S, n) == UNION { [1..k -> S] : k \in 0..n }

(***************************************************************************)
(* JSON values as json.loads builds them. An object keeps its keys in      *)
(* insertion order, as a Python dict does: a sequence of <<key, value>>.   *)
(***************************************************************************)
JNum(n) == [t |-> "num", n |-> n]
JStr(x) == [t |-> "str", s |-> x]
JBool(b) == [t |-> "bool", b |-> b]
JNull == [t |-> "null"]
JList(items) == [t |-> "list", items |-> items]
JObj(pairs) == [t |-> "obj", pairs |-> pairs]

IsScalar(v) == v.t \in {"num", "str", "bool", "null"}

HasKey(obj, k) == \E i \in 1..Len(obj.pairs) : obj.pairs[i][1] = k
Get(obj, k) ==
    obj.pairs[CHOOSE i \in 1..Len(obj.pairs) : obj.pairs[i][1] = k][2]

\* Pairs (shorter, longer) of the string universe where the first is a proper
\* substring of the second.
ProperSubstrings == {<<"method", "getInfo-method">>, <<"sn", "deviceSn">>}

\* Python's `key in value`: "T", "F", or the exception it raises.
PyIn(key, v) ==
    CASE v.t = "obj" -> IF HasKey(v, key) THEN "T" ELSE "F"
      [] v.t = "list" ->
            IF \E i \in 1..Len(v.items) : v.items[i] = JStr(key)
            THEN "T" ELSE "F"
      [] v.t = "str" ->
            IF v.s = key \/ <<key, v.s>> \in ProperSubstrings
            THEN "T" ELSE "F"
      [] OTHER -> "TypeError"

\* str(int) for the numbers of the universe.
NumText(n) ==
    CASE n = 80 -> "80"
      [] n = 120 -> "120"
      [] n = 30 -> "30"
      [] n = 52 -> "52"
      [] n = 1 -> "1"
      [] OTHER -> "0"

\* What an f-string makes of a value (str()).
PyStr(v) ==
    CASE v.t = "str" -> v.s
      [] v.t = "num" -> NumText(v.n)
      [] v.t = "bool" -> IF v.b THEN "True" ELSE "False"
      [] v.t = "null" -> "None"
      [] OTHER -> "<repr>"

\* json.dumps of a scalar.
Quote(x) == "\"" \o x \o "\""
ScalarText(v) ==
    CASE v.t = "num" -> NumText(v.n)
      [] v.t = "str" -> Quote(v.s)
      [] v.t = "bool" -> IF v.b THEN "true" ELSE "false"
      [] OTHER -> "null"

\* json.dumps of an object of scalars: its members in order, each the
\* quoted key and the value's text.
Dumps(obj) ==
    [i \in 1..Len(obj.pairs) |->
        <<Quote(obj.pairs[i][1]), ScalarText(obj.pairs[i][2])>>]

\* The scalars and keys a JSON text of the universe can denote.
Scalars ==
    {JNum(80), JNum(120), JNum(30), JNum(52), JNum(1), JNum(0),
     JStr("80"), JStr("on"), JStr("null"), JStr("ABC123"),
     JBool(TRUE), JBool(FALSE), JNull}
Keys == {"soc", "power", "state", "mode", "flag", "a#", "volt", "temp", "sn"}

\* json.loads of such a text: the value whose text it is.
ParseScalar(text) == CHOOSE v \in Scalars : ScalarText(v) = text
ParseKey(text) == CHOOSE k \in Keys : Quote(k) = text
Loads(text) ==
    JObj([i \in 1..Len(text) |->
            <<ParseKey(text[i][1]), ParseScalar(text[i][2])>>])

(***************************************************************************)
(* paho's Client.publish(topic, payload, retain).                          *)
(***************************************************************************)
Msg(topic, payload, retain) ==
    [topic |-> topic, payload |-> payload, retain |-> retain]

\* Payload types publish accepts (str, bytes, int, float, None): others
\* raise TypeError.
Publishable(v) == IsScalar(v)

\* The bytes publish sends for an accepted value.
PahoPayload(v) ==
    CASE v.t = "str" -> v.s
      [] v.t = "num" -> NumText(v.n)
      [] v.t = "bool" -> IF v.b THEN "True" ELSE "False"
      [] OTHER -> ""

\* Topic segments holding an MQTT wildcard: publish raises ValueError.
WildcardKeys == {"a#"}

\* The exception publish(topic built from key, val) raises, "" when none.
PublishExc(key, val) ==
    IF key \in WildcardKeys THEN "ValueError"
    ELSE IF ~Publishable(val) THEN "TypeError"
    ELSE ""

\* Payloads handed to publish: a text, or a JSON text given by its members.
Text(x) == [kind |-> "text", text |-> x]
Json(members) == [kind |-> "json", members |-> members]

\* str() of an optional string (None prints as "None").
PyStrOpt(x) == IF x = NONE THEN "None" ELSE x

(***************************************************************************)
(* handle_rx (lines 123-163). Each stage yields the exception it raises    *)
(* ("" when none) and the messages published before it.                    *)
(***************************************************************************)
Outcome(exc, pubs) == [exc |-> exc, pubs |-> pubs]

\* Lines 132-134: the getInfo-rsp branch.
RxMethod(payload) ==
    LET c == PyIn("method", payload)
    IN  IF c = "TypeError" THEN "TypeError"
        ELSE IF c = "F" THEN ""
        ELSE IF payload.t # "obj" THEN "TypeError"
        ELSE IF Get(payload, "method") # JStr("getInfo-rsp") THEN ""
        ELSE IF ~HasKey(payload, "deviceId") THEN "KeyError"
        ELSE IF ~HasKey(payload, "deviceSn") THEN "KeyError"
        ELSE ""

\* for prop, val in pairs: mq_client.publish(prefix + prop, val)
RECURSIVE PublishEach(_, _, _, _)
PublishEach(prefix, pairs, i, acc) ==
    IF i > Len(pairs) THEN Outcome("", acc)
    ELSE LET key == pairs[i][1]
             val == pairs[i][2]
             e == PublishExc(key, val)
         IN  IF e # "" THEN Outcome(e, acc)
             ELSE PublishEach(prefix, pairs, i + 1,
                     Append(acc, Msg(prefix \o key, Text(PahoPayload(val)),
                                     FALSE)))

\* Line 148 left out (mutant of RxAggregate).
RxNoAggregate(props, pid, did) == <<>>

\* Line 148: the aggregate state message.
RxAggregate(props, pid, did) ==
    <<Msg(PyStrOpt(pid) \o "/" \o PyStrOpt(did) \o "/state",
          Json(Dumps(props)), FALSE)>>

\* Lines 137-148: the properties branch.
RxProperties(payload, pid, did) ==
    IF PyIn("properties", payload) # "T" THEN Outcome("", <<>>)
    ELSE IF payload.t # "obj" THEN Outcome("TypeError", <<>>)
    ELSE LET props == Get(payload, "properties")
         IN  IF props.t \in {"num", "bool", "null"}
             THEN Outcome("TypeError", <<>>)
             ELSE IF props.t # "obj" THEN Outcome("AttributeError", <<>>)
             ELSE LET r == PublishEach("solarflow-hub/telemetry/",
                                       props.pairs, 1, <<>>)
                  IN  IF r.exc # "" THEN r
                      ELSE Outcome("", r.pubs \o RxAggregate(props, pid, did))

\* pack.pop('sn') keeps the sn among the properties (mutant of PackRest).
PackRestKeepsSn(pack) == pack.pairs

\* Line 155: what pack.pop('sn') leaves in the pack.
PackRest(pack) == SelectSeq(pack.pairs, LAMBDA q : q[1] # "sn")

\* Lines 154-158: for pack in packdata.
RECURSIVE PublishPacks(_, _, _)
PublishPacks(items, i, acc) ==
    IF i > Len(items) THEN Outcome("", acc)
    ELSE LET pack == items[i]
         IN  IF pack.t = "list" THEN Outcome("TypeError", acc)
             ELSE IF pack.t # "obj" THEN Outcome("AttributeError", acc)
             ELSE IF ~HasKey(pack, "sn") THEN Outcome("KeyError", acc)
             ELSE LET sn == Get(pack, "sn")
                      r == PublishEach(
                             "solarflow-hub/telemetry/batteries/"
                                 \o PyStr(sn) \o "/",
                             PackRest(pack), 1, acc)
                  IN  IF r.exc # "" THEN r
                      ELSE PublishPacks(items, i + 1, r.pubs)

\* Lines 150-158: the packData branch.
RxPackData(payload) ==
    IF PyIn("packData", payload) # "T" THEN Outcome("", <<>>)
    ELSE IF payload.t # "obj" THEN Outcome("TypeError", <<>>)
    ELSE LET packdata == Get(payload, "packData")
         IN  CASE packdata.t \in {"num", "bool", "null"} ->
                    Outcome("TypeError", <<>>)
               [] packdata.t = "str" ->
                    IF packdata.s = "" THEN Outcome("", <<>>)
                    ELSE Outcome("AttributeError", <<>>)
               [] packdata.t = "obj" ->
                    IF Len(packdata.pairs) = 0 THEN Outcome("", <<>>)
                    ELSE Outcome("AttributeError", <<>>)
               [] OTHER -> PublishPacks(packdata.items, 1, <<>>)

\* Notification bytes: not UTF-8, UTF-8 that is not JSON, or a JSON text.
BadUtf8 == [k |-> "badutf8", v |-> JNull]
NotJson == [k |-> "notjson", v |-> JNull]
JsonBytes(v) == [k |-> "json", v |-> v]

\* Lines 127-158: the body of the try statement.
TryBody(bytes, mq, pid, did) ==
    IF bytes.k = "badutf8" THEN Outcome("UnicodeDecodeError", <<>>)
    ELSE IF bytes.k = "notjson" THEN Outcome("JSONDecodeError", <<>>)
    ELSE LET payload == bytes.v
             e1 == RxMethod(payload)
         IN  IF e1 # "" THEN Outcome(e1, <<>>)
             ELSE IF mq = NoClient THEN Outcome("", <<>>)
             ELSE LET r2 == RxProperties(payload, pid, did)
                  IN  IF r2.exc # "" THEN r2
                      ELSE LET r3 == RxPackData(payload)
                           IN  Outcome(r3.exc, r2.pubs \o r3.pubs)

\* The except clauses without the catch-all (mutant of ExceptClause).
ExceptClauseJsonOnly(exc) ==
    IF exc = "JSONDecodeError" THEN "JSONDecodeError" ELSE "none"

\* Lines 159-163: the except clause that catches exc, "none" when no clause
\* does. Every exception the body raises derives from Exception.
ExceptClause(exc) ==
    IF exc = "" THEN "none"
    ELSE IF exc = "JSONDecodeError" THEN "JSONDecodeError"
    ELSE "Exception"

\* handle_rx: what it published, what it raised inside, whether that escaped.
handle_rx(bytes, mq, pid, did) ==
    LET r == TryBody(bytes, mq, pid, did)
    IN  [exc |-> r.exc,
         caught |-> ExceptClause(r.exc),
         escaped |-> r.exc # "" /\ ExceptClause(r.exc) = "none",
         pubs |-> r.pubs]

NoRx == [exc |-> "", caught |-> "none", escaped |-> FALSE, pubs |-> <<>>]

\* handle_rx adopts the device id of a getInfo-rsp (mutant of RxGlobals).
RxGlobalsLearnsId(bytes, mq, pid, did) ==
    IF /\ bytes.k = "json" /\ bytes.v.t = "obj"
       /\ RxMethod(bytes.v) = ""
       /\ HasKey(bytes.v, "deviceId")
    THEN <<mq, pid, Get(bytes.v, "deviceId").s>>
    ELSE <<mq, pid, did>>

\* Line 125 declares mq_client, SF_PRODUCT_ID and SF_DEVICE_ID global, and
\* lines 126-163 assign none of them: their values after the call.
RxGlobals(bytes, mq, pid, did) == <<mq, pid, did>>

(***************************************************************************)
(* The notification universe: every shape the callback distinguishes.      *)
(***************************************************************************)
PropsSocPower == JObj(<<<<"soc", JNum(80)>>, <<"power", JNum(120)>>>>)
PropsPowerSoc == JObj(<<<<"power", JNum(120)>>, <<"soc", JNum(80)>>>>)
PropsMixed ==
    JObj(<<<<"soc", JNum(80)>>, <<"state", JStr("80")>>,
           <<"mode", JNull>>, <<"flag", JBool(TRUE)>>>>)
PropsNested ==
    JObj(<<<<"soc", JNum(80)>>, <<"mode", JObj(<<>>)>>,
           <<"power", JNum(120)>>>>)
PropsWildcard == JObj(<<<<"soc", JNum(80)>>, <<"a#", JNum(1)>>>>)
PackABC ==
    JObj(<<<<"sn", JStr("ABC123")>>, <<"volt", JNum(52)>>,
           <<"temp", JNum(30)>>>>)
PackSnMiddle ==
    JObj(<<<<"volt", JNum(30)>>, <<"sn", JStr("DEF456")>>,
           <<"temp", JNum(30)>>>>)
PackNoSn == JObj(<<<<"volt", JNum(52)>>>>)
PackOnlySn == JObj(<<<<"sn", JStr("ABC123")>>>>)

PropertiesPayloads ==
    { JObj(<<<<"properties", q>>>>) :
        q \in {PropsSocPower, PropsPowerSoc, PropsMixed, PropsNested,
               PropsWildcard, JObj(<<>>), JObj(<<<<"soc", JNum(80)>>>>),
               JNum(80), JStr("on"), JNull, JList(<<JNum(80)>>)} }

PackDataPayloads ==
    { JObj(<<<<"packData", q>>>>) :
        q \in {JList(<<PackABC>>), JList(<<PackABC, PackSnMiddle>>),
               JList(<<PackNoSn>>), JList(<<PackABC, PackNoSn>>),
               JList(<<PackOnlySn>>), JList(<<>>), JList(<<JNum(80)>>),
               JList(<<JList(<<>>)>>), JNum(80), JStr("on"), JStr(""),
               JObj(<<>>), PackABC} }

OtherPayloads ==
    { JNum(80), JStr("properties"), JStr("getInfo-method"), JStr("ABC123"),
      JList(<<>>), JList(<<JStr("method")>>), JList(<<JStr("properties")>>),
      JNull, JBool(TRUE), JObj(<<>>),
      JObj(<<<<"method", JStr("getInfo-rsp")>>, <<"deviceId", JStr("dev1")>>,
             <<"deviceSn", JStr("ABC123")>>>>),
      JObj(<<<<"method", JStr("getInfo-rsp")>>>>),
      JObj(<<<<"method", JStr("getInfo-rsp")>>,
             <<"deviceId", JStr("dev1")>>>>),
      JObj(<<<<"method", JStr("report")>>>>),
      JObj(<<<<"method", JNum(80)>>>>),
      JObj(<<<<"properties", PropsSocPower>>,
             <<"packData", JList(<<PackABC>>)>>>>),
      JObj(<<<<"method", JStr("getInfo-rsp")>>,
             <<"properties", PropsSocPower>>>>),
      JObj(<<<<"method", JStr("report")>>,
             <<"properties", PropsSocPower>>>>) }

Payloads ==
    {BadUtf8, NotJson}
        \cup { JsonBytes(v) :
                 v \in PropertiesPayloads \cup PackDataPayloads
                        \cup OtherPayloads }

\* The notifications delivered while the whole program runs.
RunPayloads ==
    { NotJson,
      JsonBytes(JObj(<<<<"method", JStr("getInfo-rsp")>>,
                       <<"deviceId", JStr("dev2")>>,
                       <<"deviceSn", JStr("ABC123")>>>>)),
      JsonBytes(JObj(<<<<"properties", PropsSocPower>>,
                       <<"packData", JList(<<PackABC>>)>>>>)) }

(***************************************************************************)
(* The whole program: main (lines 320-448).                                *)
(***************************************************************************)
Init ==
    /\ pc = "parse"
    /\ nopts = 0
    /\ info_only = FALSE /\ connect = FALSE /\ disconnect = FALSE
    /\ ssid = NONE /\ mqtt_broker = NONE /\ mqtt_port = NoPort
    /\ WIFI_PWD \in {NONE, "secret"}
    /\ SfDeviceId \in {NONE, "dev1"}
    /\ SfProductId = "ja72U0ha"
    /\ mq_client = NoClient
    /\ device = NoDevice
    /\ session = "Disconnected"
    /\ notifying = FALSE
    /\ getinfo = FALSE
    /\ mode = "none"
    /\ ops = <<>> /\ last = NoOp
    /\ published = {}
    /\ exitCode = NoExit
    /\ reported = ""
    /\ all_devices = <<>> /\ seen = <<>> /\ filterRaises = FALSE
    /\ data = NotJson /\ rx = NoRx

runVars == <<mq_client, device, sessVars, published, reported>>

\* One more option of the loop at line 340, the other settings kept.
NextOpt ==
    /\ pc = "parse"
    /\ nopts < MaxOpts
    /\ nopts' = nopts + 1
    /\ UNCHANGED <<WIFI_PWD, SfDeviceId, SfProductId, runVars, locVars, rxVars>>

\* -h, --help (lines 341-343)
OptHelp ==
    /\ NextOpt
    /\ pc' = "exit" /\ exitCode' = 0
    /\ UNCHANGED <<info_only, connect, disconnect, ssid, mqtt_broker,
                   mqtt_port>>

\* -i, --info (lines 344-346)
OptInfo ==
    /\ NextOpt
    /\ info_only' = TRUE /\ disconnect' = FALSE /\ connect' = FALSE
    /\ UNCHANGED <<pc, exitCode, ssid, mqtt_broker, mqtt_port>>

\* -d, --disconnect (lines 347-349)
OptDisconnect ==
    /\ NextOpt
    /\ disconnect' = TRUE /\ connect' = FALSE
    /\ UNCHANGED <<pc, exitCode, info_only, ssid, mqtt_broker, mqtt_port>>

\* -c, --connect (lines 360-362)
OptConnect ==
    /\ NextOpt
    /\ connect' = TRUE /\ disconnect' = FALSE
    /\ UNCHANGED <<pc, exitCode, info_only, ssid, mqtt_broker, mqtt_port>>

\* -w, --wifi (lines 350-351)
OptWifi ==
    /\ NextOpt
    /\ \E arg \in {"", "MyWifi"} : ssid' = arg
    /\ UNCHANGED <<pc, exitCode, info_only, connect, disconnect, mqtt_broker,
                   mqtt_port>>

\* int() of the port texts tried.
IntOf(text) == IF text = "1883" THEN 1883 ELSE 0

\* -b, --mqtt_broker (lines 352-355): arg.split(':')
OptBroker ==
    /\ NextOpt
    /\ \E parts \in {<<"192.168.1.100">>, <<"192.168.1.100", "1883">>} :
          /\ mqtt_broker' = parts[1]
          /\ mqtt_port' = IF Len(parts) > 1 THEN IntOf(parts[2]) ELSE 1883
    /\ UNCHANGED <<pc, exitCode, info_only, connect, disconnect, ssid>>

\* Lines 410-419: the errors collected for disconnect mode.
DisconnectErrors ==
    IF disconnect
    THEN (IF ssid = NONE THEN {"ssid"} ELSE {})
            \cup (IF mqtt_broker = NONE THEN {"broker"} ELSE {})
            \cup (IF WIFI_PWD = NONE THEN {"wifi_pwd"} ELSE {})
            \cup (IF SfDeviceId = NONE THEN {"device_id"} ELSE {})
    ELSE {}

\* Lines 431-434: the check for connect mode.
ConnectError == connect /\ ssid = NONE

\* Mutant of ValidationFails: the connect check only.
ValidationFailsConnectOnly == ConnectError

\* Lines 409-435: sys.exit(1) is reached.
ValidationFails == DisconnectErrors # {} \/ ConnectError

\* The option loop is over and validation stops the process.
ValidateExit ==
    /\ pc = "parse"
    /\ ValidationFails
    /\ pc' = "exit" /\ exitCode' = 1
    /\ UNCHANGED <<cfgVars, runVars, locVars, rxVars>>

\* The option loop is over and asyncio.run(run(...)) starts (line 439).
ValidateRun ==
    /\ pc = "parse"
    /\ ~ValidationFails
    /\ pc' = "run"
    /\ UNCHANGED <<cfgVars, runVars, exitCode, locVars, rxVars>>

(***************************************************************************)
(* run (lines 235-318).                                                    *)
(***************************************************************************)
Log(log, e) == IF Len(log) < MaxLog THEN Append(log, e) ELSE log

\* The operations es, in order, enter the history.
RECURSIVE LogAll(_, _)
LogAll(log, es) ==
    IF es = <<>> THEN log ELSE LogAll(Log(log, Head(es)), Tail(es))
Do(es) == ops' = LogAll(ops, es) /\ last' = es[Len(es)]

\* Outcomes of an operation on the BLE session: it can succeed only while
\* the link is up, and it can always raise.
Outcomes == IF session = "Connected" THEN {TRUE, FALSE} ELSE {FALSE}

\* Lines 243-245: local_mqtt_connect (lines 49-62) returns the client, or
\* None when connecting raised.
StartBroker ==
    /\ pc = "run"
    /\ IF Truthy(mqtt_broker) /\ TruthyPort(mqtt_port)
       THEN mq_client' \in {"client", NoClient}
       ELSE mq_client' = mq_client
    /\ pc' = "discover"
    /\ UNCHANGED <<cfgVars, device, sessVars, published, reported, exitCode,
                   locVars, rxVars>>

\* The advertisers in range while the whole program runs.
RunAdvertisers ==
    { a \in Advertisers : a.address \in {"AA:01", "AA:03", "AA:07"} }

\* Line 248: discover_device returns; lines 250 and 306-318.
Discover ==
    /\ pc = "discover"
    /\ \E devs \in SeqUpTo(RunAdvertisers, MaxRunDevs),
          observed \in SeqUpTo(RunAdvertisers, MaxRunDevs),
          raises \in BOOLEAN :
            device' = discover_device(devs, observed, raises, SfProductId)
    /\ IF device' # NoDevice
       THEN pc' = "connect" /\ reported' = reported
       ELSE pc' = "done" /\ reported' = "no_device"
    /\ UNCHANGED <<cfgVars, mq_client, sessVars, published, exitCode,
                   locVars, rxVars>>

\* Line 203: BleakScanner.discover raises; nothing in run catches it and
\* main logs it (lines 444-445).
DiscoverRaises ==
    /\ pc = "discover"
    /\ pc' = "done" /\ reported' = "unexpected_error"
    /\ UNCHANGED <<cfgVars, mq_client, device, sessVars, published, exitCode,
                   locVars, rxVars>>

\* Line 256: BleakClient(device).__aenter__ starts connecting.
BeginConnect ==
    /\ pc = "connect"
    /\ session' = "Connecting"
    /\ pc' = "connecting"
    /\ UNCHANGED <<cfgVars, mq_client, device, notifying, getinfo, mode, ops,
                   last,
                   published, reported, exitCode, locVars, rxVars>>

\* Lines 263-288: the branch of run that the configuration selects.
RunMode ==
    IF disconnect /\ Truthy(mqtt_broker) /\ TruthyPort(mqtt_port)
          /\ Truthy(ssid) /\ Truthy(SfDeviceId)
    THEN "disconnect"
    ELSE IF connect /\ Truthy(ssid) THEN "connect"
    ELSE IF info_only /\ mqtt_broker = NONE THEN "info"
    ELSE "continuous"

\* The connection is open; the branch is entered (lines 257-290).
ConnectOk ==
    /\ pc = "connecting"
    /\ session' = "Connected"
    /\ Do(<<Entry("connect", TRUE)>>)
    /\ mode' = RunMode
    /\ pc' = CASE RunMode \in {"disconnect", "connect"} -> "iot_token"
               [] RunMode = "info" -> "info_notify"
               [] OTHER -> "loop_notify"
    /\ getinfo' = (RunMode = "continuous")
    /\ UNCHANGED <<cfgVars, mq_client, device, notifying, published, reported,
                   exitCode, locVars, rxVars>>

\* A failed connection is tried again (mutant of AfterConnectFail).
AfterConnectFailRetry == "connect"

\* Lines 304-305: the except clause logs and run falls off its end.
AfterConnectFail == "done"

\* Connecting raised: lines 304-305.
ConnectFail ==
    /\ pc = "connecting"
    /\ session' = "Disconnected"
    /\ Do(<<Entry("connect", FALSE)>>)
    /\ reported' = "connection_failed"
    /\ pc' = AfterConnectFail
    /\ UNCHANGED <<cfgVars, mq_client, device, notifying, getinfo, mode,
                   published, exitCode, locVars, rxVars>>

\* Leaving the async with block keeps the connection as it is (mutant of
\* AsyncWithExit).
AsyncWithExitLeavesOpen(s) == s

\* Line 256: leaving the async with block, by return, exception or
\* cancellation, runs BleakClient.__aexit__, which disconnects.
AsyncWithExit(s) == "Disconnected"

(***************************************************************************)
(* set_IoT_Url (lines 86-121), called at lines 265 and 273.                *)
(***************************************************************************)
\* A failed token write ends the sequence (mutant of AfterToken).
AfterTokenAbort(ok) == IF ok THEN "iot_station" ELSE "settle"

\* Lines 103-109: the write's exception is logged; the function goes on.
AfterToken(ok) == "iot_station"

\* Line 121: the topic of the synthetic registration acknowledgment.
RegisterTopic ==
    "iot/" \o PyStrOpt(SfProductId) \o "/" \o PyStrOpt(SfDeviceId)
        \o "/register/replay"

\* The reply is published without a client test (mutant of PublishesReply).
PublishesReplyAlways == TRUE

\* Line 119: if mq_client.
PublishesReply == mq_client # NoClient

\* Lines 103-109: the token message (cmd1) is written.
IotToken ==
    /\ pc = "iot_token"
    /\ \E ok \in Outcomes :
          /\ Do(<<Entry("token", ok)>>)
          /\ pc' = AfterToken(ok)
    /\ UNCHANGED <<cfgVars, mq_client, device, session, notifying, getinfo,
                   mode, published, reported, exitCode, locVars, rxVars>>

\* Lines 111-121: the station message (cmd2) is written, then the reply is
\* published when there is a client.
IotStation ==
    /\ pc = "iot_station"
    /\ \E ok \in Outcomes :
          IF PublishesReply
          THEN Do(<<Entry("station", ok), Entry("publish_register", TRUE)>>)
          ELSE Do(<<Entry("station", ok)>>)
    /\ published' = IF PublishesReply
                    THEN published \cup {RegisterTopic} ELSE published
    /\ pc' = "settle"
    /\ UNCHANGED <<cfgVars, mq_client, device, session, notifying, getinfo,
                   mode, reported, exitCode, locVars, rxVars>>

\* Lines 267-268 and 275-276: the settle sleep ends, run returns and the
\* async with block closes the connection.
Settle ==
    /\ pc = "settle"
    /\ Do(<<Entry("sleep", TRUE), Entry("close", TRUE)>>)
    /\ session' = AsyncWithExit(session)
    /\ notifying' = FALSE
    /\ pc' = "done"
    /\ UNCHANGED <<cfgVars, mq_client, device, getinfo, mode, published,
                   reported, exitCode, locVars, rxVars>>

(***************************************************************************)
(* getInfo (lines 64-84), called at lines 282 and 296.                     *)
(***************************************************************************)
\* A failed getInfo write skips the second write (mutant of AfterGetInfo).
AfterGetInfoAbort(ok) ==
    IF ok THEN "getInfo_2"
    ELSE IF mode = "info" THEN "info_wait" ELSE "loop_sleep"

\* Lines 70-76: the write's exception is logged; the function goes on.
AfterGetInfo(ok) == "getInfo_2"

\* A failed write reaches the caller (mutant of AfterGetAll).
AfterGetAllRaises(ok) ==
    IF ok THEN (IF mode = "info" THEN "info_wait" ELSE "loop_sleep")
    ELSE IF mode = "info" THEN "done" ELSE "backoff"

\* Lines 78-84, then the caller's next statement (line 283 or 297-299).
AfterGetAll(ok) == IF mode = "info" THEN "info_wait" ELSE "loop_sleep"

\* Lines 70-76: the getInfo command is written.
GetInfo1 ==
    /\ pc = "getInfo_1"
    /\ \E ok \in Outcomes :
          /\ Do(<<Entry("getInfo", ok)>>)
          /\ pc' = AfterGetInfo(ok)
    /\ UNCHANGED <<cfgVars, mq_client, device, session, notifying, getinfo,
                   mode, published, reported, exitCode, locVars, rxVars>>

\* Lines 78-84: the read-all-properties command is written; in the loop
\* line 297 then clears the flag.
GetInfo2 ==
    /\ pc = "getInfo_2"
    /\ \E ok \in Outcomes :
          /\ Do(<<Entry("getAll", ok)>>)
          /\ pc' = AfterGetAll(ok)
    /\ getinfo' = IF mode = "continuous" THEN FALSE ELSE getinfo
    /\ UNCHANGED <<cfgVars, mq_client, device, session, notifying, mode,
                   published, reported, exitCode, locVars, rxVars>>

(***************************************************************************)
(* Info-only mode (lines 279-285).                                         *)
(***************************************************************************)
\* Line 281: start_notify. When it raises, the async with block closes the
\* connection and line 305 logs the exception.
InfoNotify ==
    /\ pc = "info_notify"
    /\ \E ok \in Outcomes :
          IF ok
          THEN /\ Do(<<Entry("start_notify", TRUE)>>)
               /\ notifying' = TRUE
               /\ pc' = "getInfo_1"
               /\ UNCHANGED <<session, reported>>
          ELSE /\ Do(<<Entry("start_notify", FALSE), Entry("close", TRUE)>>)
               /\ notifying' = FALSE
               /\ session' = AsyncWithExit(session)
               /\ reported' = "connection_failed"
               /\ pc' = "done"
    /\ UNCHANGED <<cfgVars, mq_client, device, getinfo, mode, published,
                   exitCode, locVars, rxVars>>

\* Line 283: the observation window.
InfoWait ==
    /\ pc = "info_wait"
    /\ Do(<<Entry("sleep", TRUE)>>)
    /\ pc' = "info_unnotify"
    /\ UNCHANGED <<cfgVars, mq_client, device, session, notifying, getinfo,
                   mode, published, reported, exitCode, locVars, rxVars>>

\* Lines 284-285: stop_notify, return, and the async with block closes the
\* connection; an exception of stop_notify is logged at line 305.
InfoUnnotify ==
    /\ pc = "info_unnotify"
    /\ \E ok \in Outcomes :
          /\ Do(<<Entry("stop_notify", ok), Entry("close", TRUE)>>)
          /\ reported' = IF ok THEN reported ELSE "connection_failed"
    /\ notifying' = FALSE
    /\ session' = AsyncWithExit(session)
    /\ pc' = "done"
    /\ UNCHANGED <<cfgVars, mq_client, device, getinfo, mode, published,
                   exitCode, locVars, rxVars>>

(***************************************************************************)
(* Continuous mode (lines 288-303).                                        *)
(***************************************************************************)
\* An exception in the loop leaves it (mutant of AfterLoopFault).
AfterLoopFaultExit == "done"

\* Lines 300-303: the exception is logged and the backoff sleep follows.
AfterLoopFault == "backoff"

\* Line 299: what asyncio.sleep(GLOBAL_INFO_POLLING_INTERVAL, True) returns.
SleepResult == TRUE

\* Lines 293-297: start_notify at the head of every iteration, then the
\* test of the flag.
LoopNotify ==
    /\ pc = "loop_notify"
    /\ \E ok \in Outcomes :
          /\ Do(<<Entry("start_notify", ok)>>)
          /\ IF ok
             THEN /\ notifying' = TRUE
                  /\ pc' = IF getinfo THEN "getInfo_1" ELSE "loop_sleep"
                  /\ reported' = reported
             ELSE /\ notifying' = notifying
                  /\ pc' = AfterLoopFault
                  /\ reported' = "polling_error"
    /\ session' = IF pc' = "done" THEN "Disconnected" ELSE session
    /\ UNCHANGED <<cfgVars, mq_client, device, getinfo, mode, published,
                   exitCode, locVars, rxVars>>

\* Line 299: the polling interval elapses and sets the flag.
LoopSleep ==
    /\ pc = "loop_sleep"
    /\ Do(<<Entry("sleep", TRUE)>>)
    /\ getinfo' = SleepResult
    /\ pc' = "loop_notify"
    /\ UNCHANGED <<cfgVars, mq_client, device, session, notifying, mode,
                   published, reported, exitCode, locVars, rxVars>>

\* Line 303: the backoff sleep ends and the loop resumes.
Backoff ==
    /\ pc = "backoff"
    /\ Do(<<Entry("backoff", TRUE)>>)
    /\ pc' = "loop_notify"
    /\ UNCHANGED <<cfgVars, mq_client, device, session, notifying, getinfo,
                   mode, published, reported, exitCode, locVars, rxVars>>

(***************************************************************************)
(* The environment: the link, the hub's notifications, the interrupt.      *)
(***************************************************************************)
InSession ==
    {"iot_token", "iot_station", "settle", "info_notify", "getInfo_1",
     "getInfo_2", "info_wait", "info_unnotify", "loop_notify", "loop_sleep",
     "backoff"}

\* A transport error parks the session in an error state (mutant of
\* AfterTransportError).
AfterTransportErrorState == "Error"

\* What a transport error makes of the connection behind bt_client: it is
\* no longer connected, and nothing in run reconnects it.
AfterTransportError == "Disconnected"

\* The transport drops: the connection and its subscription are gone.
Drop ==
    /\ pc \in InSession
    /\ session = "Connected"
    /\ session' = AfterTransportError
    /\ notifying' = FALSE
    /\ UNCHANGED <<pc, cfgVars, mq_client, device, getinfo, mode, ops, last,
                   published, reported, exitCode, locVars, rxVars>>

\* Topics of a sequence of messages.
Topics(msgs) == { msgs[i].topic : i \in 1..Len(msgs) }

\* The hub notifies: bleak calls handle_rx (registered at lines 281, 293).
Notify ==
    /\ pc \in InSession
    /\ session = "Connected"
    /\ notifying
    /\ \E d \in RunPayloads :
          /\ data' = d
          /\ rx' = handle_rx(d, mq_client, SfProductId, SfDeviceId)
          /\ LET g == RxGlobals(d, mq_client, SfProductId, SfDeviceId)
             IN  /\ mq_client' = g[1]
                 /\ SfProductId' = g[2]
                 /\ SfDeviceId' = g[3]
    /\ published' = published \cup Topics(rx'.pubs)
    /\ UNCHANGED <<pc, mainVars, WIFI_PWD, device, sessVars, reported,
                   exitCode, locVars>>

\* KeyboardInterrupt while run is suspended: asyncio.run cancels the task,
\* the async with block closes the connection, main logs (lines 442-443).
Cancel ==
    /\ pc \in InSession \cup {"discover", "connecting"}
    /\ pc' = "cancelled"
    /\ session' = IF pc \in InSession THEN AsyncWithExit(session)
                  ELSE "Disconnected"
    /\ notifying' = FALSE
    /\ UNCHANGED <<cfgVars, mq_client, device, getinfo, mode, ops, last,
                   published,
                   reported, exitCode, locVars, rxVars>>

\* The steps the program takes itself.
Program ==
    \/ OptHelp \/ OptInfo \/ OptDisconnect \/ OptConnect \/ OptWifi
    \/ OptBroker \/ ValidateExit \/ ValidateRun
    \/ StartBroker \/ Discover \/ DiscoverRaises
    \/ BeginConnect \/ ConnectOk \/ ConnectFail
    \/ IotToken \/ IotStation \/ Settle
    \/ GetInfo1 \/ GetInfo2
    \/ InfoNotify \/ InfoWait \/ InfoUnnotify
    \/ LoopNotify \/ LoopSleep \/ Backoff

Next == Program \/ Drop \/ Notify \/ Cancel

Spec == Init /\ [][Next]_vars

\* The event loop runs the program whenever it can take a step.
FairSpec == Spec /\ WF_vars(Program)

(***************************************************************************)
(* discover_device alone, on bounded scan results.                         *)
(***************************************************************************)
LocInit ==
    /\ pc = "locate"
    /\ all_devices \in SeqUpTo(Advertisers, MaxDevs)
    /\ seen \in SeqUpTo(Advertisers, MaxSeen)
    /\ filterRaises \in BOOLEAN
    /\ SfProductId \in ProductIds
    /\ nopts = 0
    /\ info_only = FALSE /\ connect = FALSE /\ disconnect = FALSE
    /\ ssid = NONE /\ mqtt_broker = NONE /\ mqtt_port = NoPort
    /\ WIFI_PWD = NONE /\ SfDeviceId = NONE
    /\ mq_client = NoClient
    /\ device = NoDevice
    /\ session = "Disconnected"
    /\ notifying = FALSE /\ getinfo = FALSE /\ mode = "none"
    /\ ops = <<>> /\ last = NoOp /\ published = {}
    /\ exitCode = NoExit /\ reported = ""
    /\ data = NotJson /\ rx = NoRx

\* Lines 203-233: both scans have run and discover_device returns.
Locate ==
    /\ pc = "locate"
    /\ device' = discover_device(all_devices, seen, filterRaises, SfProductId)
    /\ pc' = "located"
    /\ UNCHANGED <<cfgVars, mq_client, sessVars, published, exitCode,
                   reported, locVars, rxVars>>

SpecLocate == LocInit /\ [][Locate]_vars

(***************************************************************************)
(* handle_rx alone, on the notification universe.                          *)
(***************************************************************************)
RxInit ==
    /\ pc = "rx_wait"
    /\ data \in Payloads
    /\ rx = NoRx
    /\ mq_client \in {NoClient, "client"}
    /\ SfProductId \in {"ja72U0ha", "A8yh63"}
    /\ SfDeviceId \in {NONE, "dev1"}
    /\ nopts = 0
    /\ info_only = FALSE /\ connect = FALSE /\ disconnect = FALSE
    /\ ssid = NONE /\ mqtt_broker = NONE /\ mqtt_port = NoPort
    /\ WIFI_PWD = NONE
    /\ device = NoDevice
    /\ session = "Connected"
    /\ notifying = TRUE /\ getinfo = FALSE /\ mode = "continuous"
    /\ ops = <<>> /\ last = NoOp /\ published = {}
    /\ exitCode = NoExit /\ reported = ""
    /\ all_devices = <<>> /\ seen = <<>> /\ filterRaises = FALSE

\* One notification is delivered: handle_rx runs to its end.
HandleRx ==
    /\ pc = "rx_wait"
    /\ rx' = handle_rx(data, mq_client, SfProductId, SfDeviceId)
    /\ LET g == RxGlobals(data, mq_client, SfProductId, SfDeviceId)
       IN  /\ mq_client' = g[1]
           /\ SfProductId' = g[2]
           /\ SfDeviceId' = g[3]
    /\ published' = published \cup Topics(rx'.pubs)
    /\ pc' = "rx_done"
    /\ UNCHANGED <<mainVars, WIFI_PWD, device, sessVars, exitCode, reported,
                   locVars, data>>

SpecRx == RxInit /\ [][HandleRx]_vars

(***************************************************************************)
(* The two users of mq_client alone: handle_rx on the notification         *)
(* universe, and set_IoT_Url from the point where run calls it in connect  *)
(* or disconnect mode, with or without a client.                           *)
(***************************************************************************)
ToggleInit ==
    /\ pc = "iot_token"
    /\ nopts = MaxOpts
    /\ info_only = FALSE
    /\ \/ /\ connect = TRUE /\ disconnect = FALSE
          /\ \/ mqtt_broker = NONE /\ mqtt_port = NoPort
                /\ mq_client = NoClient
             \/ mqtt_broker = "192.168.1.100" /\ mqtt_port = 1883
                /\ mq_client \in {NoClient, "client"}
          /\ WIFI_PWD \in {NONE, "secret"}
          /\ SfDeviceId \in {NONE, "dev1"}
       \/ /\ connect = FALSE /\ disconnect = TRUE
          /\ mqtt_broker = "192.168.1.100" /\ mqtt_port = 1883
          /\ mq_client \in {NoClient, "client"}
          /\ WIFI_PWD = "secret" /\ SfDeviceId = "dev1"
    /\ ssid = "MyWifi"
    /\ SfProductId \in {"ja72U0ha", "A8yh63"}
    /\ device \in RunAdvertisers
    /\ NameMatches(device, product_class(SfProductId))
    /\ session = "Connected"
    /\ notifying = FALSE /\ getinfo = FALSE
    /\ mode = RunMode
    /\ ops = <<Entry("connect", TRUE)>> /\ last = Entry("connect", TRUE)
    /\ published = {}
    /\ exitCode = NoExit /\ reported = ""
    /\ all_devices = <<>> /\ seen = <<>> /\ filterRaises = FALSE
    /\ data = NotJson /\ rx = NoRx

SinkInit == RxInit \/ ToggleInit

SinkNext == HandleRx \/ IotToken \/ IotStation \/ Settle

SpecSink == SinkInit /\ [][SinkNext]_vars

(***************************************************************************)
(* Vocabulary of the properties.                                           *)
(***************************************************************************)
Writes == {"getInfo", "getAll", "token", "station"}
Terminated == {"exit", "done", "cancelled"}
LoopPcs == {"loop_notify", "loop_sleep", "backoff"}
OpNames(log) == [i \in 1..Len(log) |-> log[i].op]
WritesOf(log) == SelectSeq(log, LAMBDA e : e.op \in Writes)
Count(log, op) == Cardinality({ i \in 1..Len(log) : log[i].op = op })

\* Entry i of the history comes after a successful start_notify that no
\* successful stop_notify has undone.
SubscribedAt(i) ==
    \E j \in 1..(i - 1) :
        /\ ops[j] = Entry("start_notify", TRUE)
        /\ \A k \in (j + 1)..(i - 1) : ops[k] # Entry("stop_notify", TRUE)

\* The program has taken a step that performed a session operation which
\* failed (an action-level predicate).
FaultIn(op) == last' = Entry(op, FALSE) /\ pc' # "cancelled" /\ pc # pc'

(***************************************************************************)
(* C1. In every run mode, every command write (by getInfo or set_IoT_Url)  *)
(* is preceded by a successful start_notify on the session that no         *)
(* stop_notify has undone since.                                           *)
(***************************************************************************)
C1_WritesOnlyWhileSubscribed ==
    \A i \in 1..Len(ops) : ops[i].op \in Writes => SubscribedAt(i)

(***************************************************************************)
(* C2, as claimed. In continuous mode a fault raised by subscribe or by    *)
(* either command write is followed by the backoff delay.                  *)
(***************************************************************************)
C2_EveryFaultBacksOff ==
    [][(mode = "continuous"
          /\ (FaultIn("start_notify") \/ FaultIn("getInfo")
                \/ FaultIn("getAll")))
        => pc' = "backoff"]_vars

(***************************************************************************)
(* C2, amended. In continuous mode no fault ends the loop: a fault of      *)
(* subscribe is followed by the backoff delay and then by the next         *)
(* iteration; a fault of a command write is swallowed in getInfo and is    *)
(* followed by the rest of the iteration (the second write, the interval   *)
(* sleep) and then by the next iteration; only cancellation terminates.    *)
(***************************************************************************)
C2_FaultsNeverEndLoop ==
    [][mode = "continuous" /\ pc' # pc /\ pc' # "cancelled" =>
          /\ pc' \notin Terminated
          /\ FaultIn("start_notify") => pc' = "backoff"
          /\ pc = "backoff" => pc' = "loop_notify"
          /\ pc = "getInfo_1" => pc' = "getInfo_2"
          /\ pc = "getInfo_2" => pc' = "loop_sleep"
          /\ pc = "loop_sleep" => pc' = "loop_notify"]_vars

\* A subscribe fault was followed by the backoff and a write fault by the
\* interval sleep, and the loop is at the head of a further iteration.
C2_Witness ==
    /\ mode = "continuous" /\ pc = "loop_notify"
    /\ \E i \in 1..Len(ops) :
          ops[i] = Entry("start_notify", FALSE)
    /\ last = Entry("backoff", TRUE)
    /\ \E i \in 1..(Len(ops) - 2) :
          /\ ops[i] = Entry("getInfo", FALSE)
          /\ ops[i + 2] = Entry("sleep", TRUE)

(***************************************************************************)
(* C3. In continuous mode the first iteration, and every iteration that    *)
(* follows a completed polling-interval sleep, issues GetInfo and          *)
(* GetAllProperties: the step the loop takes from its head leads to the    *)
(* first command write.                                                    *)
(***************************************************************************)
C3_PollAfterEverySleep ==
    [][(mode = "continuous" /\ pc = "loop_notify"
          /\ last.op \in {"connect", "sleep"}
          /\ pc' # pc /\ pc' # "cancelled")
        => pc' = "getInfo_1"]_vars

(***************************************************************************)
(* C4. When the configuration selects a one-shot mode (info-only,          *)
(* connect or disconnect) and validation has passed, the run never         *)
(* enters the continuous polling loop.                                     *)
(***************************************************************************)
C4_OneShotNeverLoops ==
    (pc \notin {"parse", "exit"} /\ (info_only \/ connect \/ disconnect))
        => (mode # "continuous" /\ pc \notin LoopPcs)

(***************************************************************************)
(* C5. In cloud-toggle mode the token message is written before the        *)
(* station message, each is attempted exactly once, a failed token write   *)
(* does not prevent the station write, and after the settle delay the      *)
(* session is closed and the run is over.                                  *)
(***************************************************************************)
C5_ToggleSequence ==
    mode \in {"disconnect", "connect"} =>
        /\ pc \in {"iot_token", "iot_station", "settle", "done", "cancelled"}
        /\ Count(ops, "token") <= 1 /\ Count(ops, "station") <= 1
        /\ pc \in {"settle", "done"} =>
              OpNames(WritesOf(ops)) = <<"token", "station">>
        /\ pc = "done" =>
              /\ session = "Disconnected"
              /\ Len(ops) >= 2
              /\ ops[Len(ops) - 1].op = "sleep"
              /\ ops[Len(ops)].op = "close"

\* A toggle run is over in which the token write failed and the station
\* write was made all the same.
C5_Witness ==
    /\ mode \in {"disconnect", "connect"} /\ pc = "done"
    /\ \E i \in 1..Len(ops) :
          /\ ops[i] = Entry("token", FALSE)
          /\ i < Len(ops) /\ ops[i + 1] = Entry("station", TRUE)

(***************************************************************************)
(* C6. The synthetic registration acknowledgment (topic                    *)
(* iot/<productId>/<deviceId>/register/replay) is published only in        *)
(* disconnect mode.                                                        *)
(***************************************************************************)
C6_ReplyOnlyInDisconnect ==
    RegisterTopic \in published => mode = "disconnect"

(***************************************************************************)
(* C7, as claimed. An info-only run consists of exactly: subscribe, one    *)
(* GetInfo write, one GetAllProperties write, the observation window,      *)
(* unsubscribe, close.                                                     *)
(***************************************************************************)
InfoSequence ==
    <<"connect", "start_notify", "getInfo", "getAll", "sleep", "stop_notify",
      "close">>

C7_InfoRunIsFullSequence ==
    (mode = "info" /\ pc = "done") => OpNames(ops) = InfoSequence

(***************************************************************************)
(* C7, amended. An info-only run starts with subscribe. When subscribe     *)
(* succeeds the run is exactly: subscribe, one GetInfo write attempt, one  *)
(* GetAllProperties write attempt, the observation window, unsubscribe,    *)
(* close; when subscribe raises, nothing is written and the session is     *)
(* closed at once. Until cancelled, the operations made so far are a       *)
(* prefix of that sequence.                                                *)
(***************************************************************************)
C7_InfoSequence ==
    mode = "info" =>
        /\ Len(ops) <= Len(InfoSequence)
        /\ Len(ops) >= 2 /\ ops[2].ok =>
              OpNames(ops) = SubSeq(InfoSequence, 1, Len(ops))
        /\ pc = "done" =>
              /\ session = "Disconnected" /\ ~notifying
              /\ Len(ops) >= 2
              /\ IF ops[2].ok
                 THEN OpNames(ops) = InfoSequence
                 ELSE OpNames(ops) = <<"connect", "start_notify", "close">>

\* An info-only run is over whose GetInfo write failed.
C7_Witness ==
    /\ mode = "info" /\ pc = "done"
    /\ OpNames(ops) = InfoSequence
    /\ ops[3] = Entry("getInfo", FALSE)
    /\ ops[4] = Entry("getAll", TRUE)

(***************************************************************************)
(* C8. discover_device returns a device if and only if the filtered scan   *)
(* observes an advertiser whose lower-cased name starts with the product   *)
(* prefix or the collected advertiser list holds one; the list is          *)
(* consulted exactly when the filtered scan yields nothing (also when it   *)
(* raises) and gives its first match in list order; the device returned    *)
(* satisfies the prefix predicate and has a name; "ZenE-1234" is returned  *)
(* for prefix "zene" by either strategy.                                   *)
(***************************************************************************)
CasePairs ==
    {<<"Z", "z">>, <<"E", "e">>, <<"N", "n">>, <<"H", "h">>, <<"X", "x">>}
SameLetter(a, b) == a = b \/ <<a, b>> \in CasePairs
HasPrefix(d, prefix) ==
    /\ d.hasName
    /\ Len(d.name) > 0
    /\ Len(d.name) >= Len(prefix)
    /\ \A i \in 1..Len(prefix) : SameLetter(d.name[i], prefix[i])
Min(S) == CHOOSE x \in S : \A y \in S : x <= y
ZenE1234 == Adv(TRUE, <<"Z", "e", "n", "E", "-", "1", "2", "3", "4">>, "AA:01")

C8_Locate ==
    pc = "located" =>
        LET prefix == product_class(SfProductId)
            inSeen == { i \in 1..Len(seen) : HasPrefix(seen[i], prefix) }
            inList == { i \in 1..Len(all_devices) :
                          HasPrefix(all_devices[i], prefix) }
            filterFinds == ~filterRaises /\ inSeen # {}
        IN  /\ (device # NoDevice) <=> (filterFinds \/ inList # {})
            /\ device # NoDevice => HasPrefix(device, prefix)
            /\ FallbackConsulted(seen, filterRaises, SfProductId)
                  <=> ~filterFinds
            /\ filterFinds => device = seen[Min(inSeen)]
            /\ (~filterFinds /\ inList # {})
                  => device = all_devices[Min(inList)]
            /\ (SfProductId = "ja72U0ha" /\ all_devices = <<ZenE1234>>
                  /\ seen \in {<<>>, <<ZenE1234>>})
                  => device = ZenE1234

\* The filtered scan raised and the list, whose first entry does not match,
\* gave "ZenE-1234".
C8_Witness ==
    /\ pc = "located" /\ SfProductId = "ja72U0ha"
    /\ filterRaises /\ seen = <<ZenE1234>>
    /\ Len(all_devices) = 2
    /\ ~HasPrefix(all_devices[1], <<"z", "e", "n", "e">>)
    /\ all_devices[2] = ZenE1234
    /\ device = ZenE1234

(***************************************************************************)
(* C9. handle_rx is total: whatever bytes arrive (invalid UTF-8, text      *)
(* that is not JSON, JSON that is not an object, an object of unknown      *)
(* shape, a getInfo-rsp without deviceId or deviceSn, a pack without sn)   *)
(* it returns without raising, every exception of its body being caught    *)
(* by one of its except clauses, and the session is as it was.             *)
(***************************************************************************)
C9_HandlerTotal ==
    pc = "rx_done" =>
        /\ ~rx.escaped
        /\ rx.exc # "" => rx.caught \in {"JSONDecodeError", "Exception"}
        /\ data = NotJson => rx.caught = "JSONDecodeError"
        /\ data = BadUtf8 => rx.caught = "Exception"
        /\ session = "Connected" /\ notifying /\ mode = "continuous"

\* A pack without sn was delivered: the KeyError was caught.
C9_Witness ==
    /\ pc = "rx_done"
    /\ mq_client = "client"
    /\ data = JsonBytes(JObj(<<<<"packData", JList(<<PackNoSn>>)>>>>))
    /\ rx.exc = "KeyError" /\ rx.caught = "Exception" /\ ~rx.escaped

(***************************************************************************)
(* C10. For a properties notification with n entries (scalar values) and   *)
(* a configured product/device context, exactly n + 1 messages are         *)
(* published: one per key on solarflow-hub/telemetry/<key> carrying that   *)
(* key's value, and one aggregate on <productId>/<deviceId>/state whose    *)
(* payload decodes back to the same mapping.                               *)
(***************************************************************************)
IsPropertiesUpdate(bytes) ==
    /\ bytes.k = "json"
    /\ bytes.v.t = "obj"
    /\ HasKey(bytes.v, "properties")
    /\ ~HasKey(bytes.v, "packData")
    /\ ~(HasKey(bytes.v, "method")
            /\ Get(bytes.v, "method") = JStr("getInfo-rsp"))
    /\ LET q == Get(bytes.v, "properties")
       IN  /\ q.t = "obj"
           /\ \A i \in 1..Len(q.pairs) :
                 /\ IsScalar(q.pairs[i][2])
                 /\ q.pairs[i][1] \notin WildcardKeys

C10_PropertiesFanOut ==
    (pc = "rx_done" /\ mq_client # NoClient /\ SfDeviceId # NONE
        /\ IsPropertiesUpdate(data)) =>
        LET q == Get(data.v, "properties").pairs
            n == Len(q)
        IN  /\ Len(rx.pubs) = n + 1
            /\ \A i \in 1..n :
                  /\ rx.pubs[i].topic = "solarflow-hub/telemetry/" \o q[i][1]
                  /\ rx.pubs[i].payload = Text(PahoPayload(q[i][2]))
            /\ \A i, j \in 1..n :
                  i # j => rx.pubs[i].topic # rx.pubs[j].topic
            /\ rx.pubs[n + 1].topic
                  = SfProductId \o "/" \o SfDeviceId \o "/state"
            /\ rx.pubs[n + 1].payload.kind = "json"
            /\ Loads(rx.pubs[n + 1].payload.members) = JObj(q)

\* {"properties":{"soc":80,"power":120}} in context ("ja72U0ha", "dev1").
C10_Witness ==
    /\ pc = "rx_done" /\ mq_client = "client"
    /\ SfProductId = "ja72U0ha" /\ SfDeviceId = "dev1"
    /\ data = JsonBytes(JObj(<<<<"properties", PropsSocPower>>>>))
    /\ Len(rx.pubs) = 3
    /\ rx.pubs[1].topic = "solarflow-hub/telemetry/soc"
    /\ rx.pubs[2].topic = "solarflow-hub/telemetry/power"
    /\ rx.pubs[3].topic = "ja72U0ha/dev1/state"
    /\ Loads(rx.pubs[3].payload.members) = PropsSocPower

(***************************************************************************)
(* C11. For a packData notification (a list of packs, each an object with  *)
(* a string sn and scalar properties) and a configured MQTT client, the    *)
(* packs are republished in order: for each pack one message per property  *)
(* other than sn, in the pack's order, on topic                            *)
(* solarflow-hub/telemetry/batteries/<sn>/<property> carrying the value;   *)
(* no message is published for the property sn, and no pack is skipped.    *)
(***************************************************************************)
IsPackDataUpdate(bytes) ==
    /\ bytes.k = "json"
    /\ bytes.v.t = "obj"
    /\ HasKey(bytes.v, "packData")
    /\ ~HasKey(bytes.v, "properties")
    /\ ~(HasKey(bytes.v, "method")
            /\ Get(bytes.v, "method") = JStr("getInfo-rsp"))
    /\ LET q == Get(bytes.v, "packData")
       IN  /\ q.t = "list"
           /\ \A i \in 1..Len(q.items) :
                 /\ q.items[i].t = "obj"
                 /\ HasKey(q.items[i], "sn")
                 /\ Get(q.items[i], "sn").t = "str"
                 /\ \A j \in 1..Len(q.items[i].pairs) :
                       /\ IsScalar(q.items[i].pairs[j][2])
                       /\ q.items[i].pairs[j][1] \notin WildcardKeys

\* The <<serial, property, value>> triples of a list of packs, in order.
RECURSIVE PackTriples(_)
PackTriples(items) ==
    IF items = <<>> THEN <<>>
    ELSE LET pack == Head(items)
             serial == Get(pack, "sn").s
             own == { j \in 1..Len(pack.pairs) : pack.pairs[j][1] # "sn" }
             nth(k) == CHOOSE j \in own :
                          Cardinality({ m \in own : m < j }) = k - 1
         IN  [k \in 1..Cardinality(own) |->
                 <<serial, pack.pairs[nth(k)][1], pack.pairs[nth(k)][2]>>]
               \o PackTriples(Tail(items))

BatteryTopic(serial, prop) ==
    "solarflow-hub/telemetry/batteries/" \o serial \o "/" \o prop

C11_PackFanOut ==
    (pc = "rx_done" /\ mq_client # NoClient /\ IsPackDataUpdate(data)) =>
        LET items == Get(data.v, "packData").items
            e == PackTriples(items)
        IN  /\ rx.exc = ""
            /\ Len(rx.pubs) = Len(e)
            /\ \A i \in 1..Len(e) :
                  /\ rx.pubs[i].topic = BatteryTopic(e[i][1], e[i][2])
                  /\ rx.pubs[i].payload = Text(PahoPayload(e[i][3]))
                  /\ e[i][2] # "sn"
            /\ \A i \in 1..Len(rx.pubs), k \in 1..Len(items) :
                  rx.pubs[i].topic
                      # BatteryTopic(Get(items[k], "sn").s, "sn")
            /\ \A k \in 1..Len(items) :
                  Len(items[k].pairs) > 1 =>
                      \E i \in 1..Len(rx.pubs) :
                          rx.pubs[i].topic
                              = BatteryTopic(Get(items[k], "sn").s,
                                             items[k].pairs[
                                                 Len(items[k].pairs)][1])

\* Two packs, the second with sn between its properties: four messages.
C11_Witness ==
    /\ pc = "rx_done" /\ mq_client = "client"
    /\ data = JsonBytes(JObj(<<<<"packData",
                                 JList(<<PackABC, PackSnMiddle>>)>>>>))
    /\ Len(rx.pubs) = 4
    /\ rx.pubs[1].topic = "solarflow-hub/telemetry/batteries/ABC123/volt"
    /\ rx.pubs[2].topic = "solarflow-hub/telemetry/batteries/ABC123/temp"
    /\ rx.pubs[3].topic = "solarflow-hub/telemetry/batteries/DEF456/volt"
    /\ rx.pubs[4].topic = "solarflow-hub/telemetry/batteries/DEF456/temp"
    /\ rx.pubs[1].payload = Text("52")

(***************************************************************************)
(* C12. When discovery returns no device, or opening the BLE connection    *)
(* raises, then whatever the mode: nothing is subscribed, no command is    *)
(* written, nothing is published, the failure is reported and the run is   *)
(* over, with no second discovery and no second connection attempt.        *)
(***************************************************************************)
C12_FailureEndsRun ==
    /\ reported = "no_device" =>
          /\ pc = "done" /\ device = NoDevice
          /\ ops = <<>> /\ last = NoOp
          /\ published = {} /\ ~notifying
          /\ session = "Disconnected" /\ mode = "none"
    /\ (ops # <<>> /\ ops[1] = Entry("connect", FALSE)) =>
          /\ pc = "done" /\ reported = "connection_failed"
          /\ ops = <<Entry("connect", FALSE)>>
          /\ last = Entry("connect", FALSE)
          /\ published = {} /\ ~notifying
          /\ session = "Disconnected" /\ mode = "none"

\* The connection failed in a run configured for continuous mode with a
\* broker: the run is over.
C12_Witness ==
    /\ pc = "done" /\ RunMode = "continuous" /\ mq_client = "client"
    /\ device # NoDevice
    /\ ops = <<Entry("connect", FALSE)>>
    /\ reported = "connection_failed"

(***************************************************************************)
(* C13. Product-profile resolution is total: 73bkTV, A8yh63, yWF7hV,       *)
(* ja72U0ha and 8bM93H resolve to zenp, zenh, zenr, zene and zenf, every   *)
(* other identifier resolves to the generic prefix zen, and discovery      *)
(* with any identifier returns (a device of that prefix, or none).         *)
(***************************************************************************)
MappedPrefixes ==
    { <<"73bkTV", <<"z", "e", "n", "p">>>>,
      <<"A8yh63", <<"z", "e", "n", "h">>>>,
      <<"yWF7hV", <<"z", "e", "n", "r">>>>,
      <<"ja72U0ha", <<"z", "e", "n", "e">>>>,
      <<"8bM93H", <<"z", "e", "n", "f">>>> }

C13_ResolveTotal ==
    LET resolved == product_class(SfProductId)
        mapped == { m \in MappedPrefixes : m[1] = SfProductId }
    IN  /\ \A m \in mapped : resolved = m[2]
        /\ mapped = {} => resolved = <<"z", "e", "n">>
        /\ Cardinality({ m[1] : m \in MappedPrefixes }) = 5
        /\ { m[1] : m \in MappedPrefixes } = DOMAIN product_map
        /\ pc = "located" =>
              (device = NoDevice \/ HasPrefix(device, resolved))

\* An unmapped identifier: the advertiser named "Zen" is found by the
\* generic prefix.
C13_Witness ==
    /\ pc = "located" /\ SfProductId = "unknown"
    /\ product_class(SfProductId) = <<"z", "e", "n">>
    /\ device.hasName /\ device.name = <<"Z", "e", "n">>

(***************************************************************************)
(* C14. When the option loop ends (no help exit) with disconnect mode      *)
(* requested and any of SSID, broker, WiFi password or device id not       *)
(* given, or with connect mode requested and no SSID given, the process    *)
(* exits with status 1 and run is never called: no broker connection, no   *)
(* scan, no BLE connection, no command write, no publish.                  *)
(***************************************************************************)
C14_ValidationExits ==
    (/\ pc # "parse" /\ exitCode # 0
     /\ \/ /\ disconnect
           /\ \/ ssid = NONE \/ mqtt_broker = NONE
              \/ WIFI_PWD = NONE \/ SfDeviceId = NONE
        \/ connect /\ ssid = NONE)
    => /\ pc = "exit" /\ exitCode = 1
       /\ mq_client = NoClient /\ device = NoDevice
       /\ session = "Disconnected" /\ ~notifying /\ mode = "none"
       /\ ops = <<>> /\ last = NoOp /\ published = {}

\* -d -w MyWifi -b 192.168.1.100 with WIFI_PWD set and SF_DEVICE_ID unset.
C14_Witness ==
    /\ pc = "exit" /\ exitCode = 1
    /\ disconnect /\ ssid = "MyWifi" /\ mqtt_broker = "192.168.1.100"
    /\ WIFI_PWD = "secret" /\ SfDeviceId = NONE

(***************************************************************************)
(* C15. In continuous mode start_notify is invoked once, before the first  *)
(* poll, and is not invoked again while the subscription is active: no     *)
(* step of the loop performs start_notify on a session that is notifying.  *)
(***************************************************************************)
C15_SubscribeOnce ==
    [][(mode = "continuous" /\ notifying /\ pc' # pc /\ pc' # "cancelled")
        => last'.op # "start_notify"]_vars

(***************************************************************************)
(* C16. After a mid-loop session drop in continuous mode no connect and    *)
(* no subscribe operation is performed again in that run.                  *)
(***************************************************************************)
C16_NoSubscribeAfterDrop ==
    [][(mode = "continuous" /\ pc \in InSession /\ session = "Disconnected"
          /\ pc' # pc /\ pc' # "cancelled")
        => last'.op \notin {"connect", "start_notify"}]_vars

(***************************************************************************)
(* C17. Within one poll the GetInfo command is written before the          *)
(* GetAllProperties command; a failed GetInfo write does not prevent the   *)
(* GetAllProperties write; a failed write never reaches the caller: the    *)
(* continuous loop goes on to its interval sleep, not to the backoff, and  *)
(* info-only mode goes on to its observation window, and run reports no    *)
(* error.                                                                  *)
(***************************************************************************)
C17_PollWritesContained ==
    [][(pc' # pc /\ pc' # "cancelled") =>
          /\ pc = "getInfo_1" =>
                /\ last'.op = "getInfo"
                /\ pc' = "getInfo_2"
                /\ reported' = reported
          /\ pc = "getInfo_2" =>
                /\ last = Entry("getInfo", last.ok)
                /\ last'.op = "getAll"
                /\ pc' = IF mode = "info" THEN "info_wait" ELSE "loop_sleep"
                /\ reported' = reported /\ session' = session
          /\ last'.op = "getAll" => pc = "getInfo_2"]_vars

\* Both writes of a poll failed in continuous mode and the interval sleep
\* followed.
C17_Witness ==
    /\ mode = "continuous" /\ pc = "loop_notify"
    /\ last = Entry("sleep", TRUE)
    /\ \E i \in 1..(Len(ops) - 2) :
          /\ ops[i] = Entry("getInfo", FALSE)
          /\ ops[i + 1] = Entry("getAll", FALSE)
          /\ ops[i + 2] = Entry("sleep", TRUE)

(***************************************************************************)
(* C18, as claimed. The session follows only the transitions               *)
(* Disconnected -> Connecting -> Connected -> Disconnected.                *)
(***************************************************************************)
C18_OnlyClaimedTransitions ==
    [][session' # session =>
          <<session, session'>> \in
              { <<"Disconnected", "Connecting">>,
                <<"Connecting", "Connected">>,
                <<"Connected", "Disconnected">> }]_vars

(***************************************************************************)
(* C18, amended. The session follows only the transitions                  *)
(* Disconnected -> Connecting -> Connected -> Disconnected and             *)
(* Connecting -> Disconnected (the connection attempt failed or was        *)
(* cancelled); Connecting is entered at most once per run, for the one     *)
(* device discovery returned; a transport error in Connected leads         *)
(* directly to Disconnected.                                               *)
(***************************************************************************)
C18_SessionTransitions ==
    [][/\ session' # session =>
             <<session, session'>> \in
                 { <<"Disconnected", "Connecting">>,
                   <<"Connecting", "Connected">>,
                   <<"Connecting", "Disconnected">>,
                   <<"Connected", "Disconnected">> }
       /\ (session' = "Connecting" /\ session # "Connecting") =>
             /\ ops = <<>> /\ last = NoOp
             /\ device # NoDevice /\ device' = device
       /\ session' = "Connected" => Count(ops', "connect") = 1
       /\ (session = "Connected" /\ pc' = pc /\ session' # session) =>
             session' = "Disconnected"]_vars

\* The transport dropped while the continuous loop slept.
C18_Witness ==
    /\ mode = "continuous" /\ pc = "loop_sleep"
    /\ session = "Disconnected"
    /\ ops[1] = Entry("connect", TRUE)
    /\ Count(ops, "connect") = 1

(***************************************************************************)
(* C19. The notification callback may run between any two steps of the     *)
(* polling loop and writes no state the loop reads or writes: a step that  *)
(* delivers a notification leaves the loop's control state (position,      *)
(* poll-due flag, session state, mode), the commands written so far, the   *)
(* configuration and the MQTT client as they were, and no step of the      *)
(* program touches what the callback received or produced.                 *)
(***************************************************************************)
C19_CallbackFrame ==
    [][/\ (rx' # rx \/ data' # data) =>
             UNCHANGED <<pc, cfgVars, mq_client, device, sessVars, reported,
                         exitCode>>
       /\ pc' # pc => UNCHANGED <<data, rx>>]_vars

\* A properties notification was delivered between the two command writes
\* of the first poll.
C19_Witness ==
    /\ mode = "continuous" /\ pc = "getInfo_2" /\ getinfo
    /\ mq_client = "client"
    /\ data \notin {NotJson} /\ Len(rx.pubs) > 0
    /\ OpNames(ops) = <<"connect", "start_notify", "getInfo">>

(***************************************************************************)
(* C20. Whenever run is over after the BLE connection was opened (the      *)
(* normal end of a one-shot mode, or a fault of subscribe or unsubscribe)  *)
(* the session is closed: it is Disconnected, with no subscription, in     *)
(* every terminated state, and a run that returned ends with the close of  *)
(* the session; in info-only mode no unsubscribe is made when the          *)
(* subscribe failed.                                                       *)
(***************************************************************************)
C20_ClosedOnReturn ==
    /\ pc \in Terminated => (session = "Disconnected" /\ ~notifying)
    /\ (pc = "done" /\ ops # <<>> /\ ops[1] = Entry("connect", TRUE)) =>
          last = Entry("close", TRUE)
    /\ (mode = "info" /\ Len(ops) >= 2 /\ ops[2] = Entry("start_notify", FALSE))
          => /\ Count(ops, "stop_notify") = 0
             /\ pc \in {"done", "cancelled"}

\* An info-only run whose unsubscribe raised: the session was closed.
C20_Witness ==
    /\ mode = "info" /\ pc = "done"
    /\ session = "Disconnected"
    /\ Len(ops) = 7
    /\ ops[6] = Entry("stop_notify", FALSE)
    /\ ops[7] = Entry("close", TRUE)
    /\ reported = "connection_failed"

(***************************************************************************)
(* C21. Without an MQTT client (no broker or port given, or the broker     *)
(* connection failed) no notification of any shape causes a publish and    *)
(* set_IoT_Url publishes no acknowledgment: a notification leaves the      *)
(* session and the configuration as they were. With a client, set_IoT_Url  *)
(* publishes the acknowledgment after both command writes were attempted,  *)
(* whether or not they succeeded.                                          *)
(***************************************************************************)
C21_ClientGatesPublish ==
    /\ mq_client = NoClient =>
          /\ published = {} /\ rx.pubs = <<>>
          /\ Count(ops, "publish_register") = 0
    /\ pc = "rx_done" =>
          /\ session = "Connected" /\ notifying /\ mode = "continuous"
          /\ ops = <<>> /\ SfDeviceId \in {NONE, "dev1"}
          /\ mq_client = NoClient => published = {}
    /\ (mq_client # NoClient /\ pc \in {"settle", "done"}) =>
          /\ RegisterTopic \in published
          /\ Len(ops) >= 4
          /\ OpNames(SubSeq(ops, 1, 4))
                = <<"connect", "token", "station", "publish_register">>
    /\ (mq_client # NoClient /\ pc \in {"iot_token", "iot_station"}) =>
          RegisterTopic \notin published

\* With a client, both writes failed and the acknowledgment was published.
C21_Witness ==
    /\ pc = "done" /\ mq_client = "client"
    /\ ops[2] = Entry("token", FALSE)
    /\ ops[3] = Entry("station", FALSE)
    /\ ops[4] = Entry("publish_register", TRUE)
    /\ RegisterTopic \in published

====
